---- MODULE Spec2Model ----
(***************************************************************************)
(* GeothermalDashboard (src/20250328_geothermal_dashboard.py): the CSV     *)
(* loader load_and_clean_data and the range filter apply_filters, as a     *)
(* state machine over one dashboard object.                                *)
(*                                                                         *)
(* A DataFrame is a record [columns, index, data]: the column labels, the  *)
(* row labels, and the rows (each a tuple of cells, one per column).       *)
(* A number is a record [na, v]: na marks pandas' NaN.  A cell that was    *)
(* never coerced is the text read from the file.                           *)
(***************************************************************************)
EXTENDS Integers, Sequences, FiniteSets, TLC

VARIABLES file, pc, error, df, df_filtered, bounds, table

vars == <<file, pc, error, df, df_filtered, bounds, table>>

(***************************************************************************)
(* Numbers with NaN                                                        *)
(***************************************************************************)
NaN == [na |-> TRUE, v |-> 0]

Num(n) == [na |-> FALSE, v |-> n]

\* Series >= scalar, elementwise: a comparison with NaN is False.
Ge(a, b) == (~a.na) /\ (~b.na) /\ a.v >= b.v

\* Series <= scalar, elementwise: a comparison with NaN is False.
Le(a, b) == (~a.na) /\ (~b.na) /\ a.v <= b.v

\* Series - Series, elementwise: NaN when either operand is NaN.
Sub(a, b) == IF a.na \/ b.na THEN NaN ELSE Num(a.v - b.v)

(***************************************************************************)
(* Column names                                                            *)
(***************************************************************************)
numeric_cols ==
    <<"Depth", "Temp Out( degF)", "Temp In(degF)",
      "ROP(1 ft)", "WOB (k-lbs)", "Surface Torque (psi)">>

\* The derived column of line 79 (the source spells it with a Greek Delta).
GainCol == "dT (Temp Gain)"

show_cols ==
    <<"Depth", "Temp Out( degF)", "Temp In(degF)", GainCol,
      "ROP(1 ft)", "WOB (k-lbs)", "Surface Torque (psi)">>

Range(s) == {s[i] : i \in 1..Len(s)}

Has(cols, name) == \E i \in 1..Len(cols) : cols[i] = name

Pos(cols, name) == CHOOSE i \in 1..Len(cols) : cols[i] = name

\* d[name]: the column as a sequence, one cell per row.
Column(d, name) == [i \in 1..Len(d.data) |-> d.data[i][Pos(d.columns, name)]]

\* 0, 1, ..., n-1: the RangeIndex of a frame of n rows.
RangeIndex(n) == [i \in 1..n |-> i - 1]

EmptyFrame == [columns |-> <<>>, index |-> <<>>, data |-> <<>>]

(***************************************************************************)
(* The input file: a sequence of lines, each a tuple of cell texts.        *)
(***************************************************************************)
MaxRows == 2

MaxPrefix == 3

\* The line that holds the column names, with one column that is not numeric.
NamesLine ==
    <<"Depth", "Temp Out( degF)", "Temp In(degF)",
      "ROP(1 ft)", "WOB (k-lbs)", "Surface Torque (psi)", "Time">>

\* A line of metadata: a title and blank cells.
MetaLine == <<"Utah FORGE", "", "", "", "", "", "">>

BaseLine == <<"1", "3", "1", "1", "1", "5", "t">>

BlankLine == <<"", "", "", "", "", "", "">>

\* Another number, and a text that is no number.
DeviantTexts == {"2", "x"}

\* The data lines: the base line, the base line with one numeric cell
\* changed, and a line of blank cells.
DataLines ==
    {BaseLine, BlankLine}
        \cup {[BaseLine EXCEPT ![c] = t] : c \in 1..Len(numeric_cols), t \in DeviantTexts}

SeqsUpTo(S, n) == UNION {[1..k -> S] : k \in 0..n}

Files ==
    {p \o d : p \in SeqsUpTo({MetaLine, NamesLine}, MaxPrefix),
              d \in SeqsUpTo(DataLines, MaxRows)}

(***************************************************************************)
(* load_and_clean_data                                                     *)
(***************************************************************************)
\* The texts pandas reads as numbers, with their values.
NumericText == ("1" :> 1) @@ ("2" :> 2) @@ ("3" :> 3) @@ ("5" :> 5)

to_numeric_zero(text) ==
    IF text \in DOMAIN NumericText THEN Num(NumericText[text]) ELSE Num(0)

\* pd.to_numeric(..., errors='coerce') on one cell: a text that is no number
\* (a blank cell, which read_csv reads as NaN, included) becomes NaN.
to_numeric(text) ==
    IF text \in DOMAIN NumericText THEN Num(NumericText[text]) ELSE NaN

\* pd.read_csv(path) with its default header=0: the first line of the file
\* becomes the column labels and the lines after it the rows 0, 1, ...
read_csv(f) ==
    [columns |-> f[1], index |-> RangeIndex(Len(f) - 1), data |-> Tail(f)]

\* The row whose cells become the column names (df_raw.iloc[1]).
HeaderRow == 1

\* The number of rows drop([0, 1]) removes.
Dropped == 2

\* The exception load_and_clean_data raises on file f, "none" when it returns.
LoadError(f) ==
    IF Len(f) = 0 THEN "EmptyDataError"
    ELSE IF Len(read_csv(f).data) < HeaderRow + 1 THEN "IndexError"
    ELSE LET cols == read_csv(f).data[HeaderRow + 1]
         IN  IF \E k \in 1..Len(numeric_cols) : ~Has(cols, numeric_cols[k])
             THEN "KeyError"
             ELSE IF \E k \in 1..Len(numeric_cols) :
                        Cardinality({i \in 1..Len(cols) : cols[i] = numeric_cols[k]}) > 1
                  THEN "TypeError"
                  ELSE "none"

drop_first_only(rows) == SubSeq(rows, Dropped, Len(rows))

\* df_raw.drop([0, 1]): the rows labelled 0 and 1 go, the others stay in order.
drop_rows(rows) == SubSeq(rows, Dropped + 1, Len(rows))

\* Lines 55-56: the cells of the numeric columns coerced, the others as read.
coerce_row(cols, row) ==
    [i \in 1..Len(row) |->
        IF cols[i] \in Range(numeric_cols) THEN to_numeric(row[i]) ELSE row[i]]

load_and_clean_data(f) ==
    LET df_raw == read_csv(f)
        cols   == df_raw.data[HeaderRow + 1]
        rows   == drop_rows(df_raw.data)
    IN  [columns |-> cols,
         index   |-> RangeIndex(Len(rows)),
         data    |-> [i \in 1..Len(rows) |-> coerce_row(cols, rows[i])]]

(***************************************************************************)
(* apply_filters                                                           *)
(***************************************************************************)
Present(col) == {col[i].v : i \in {j \in 1..Len(col) : ~col[j].na}}

\* float(Series.min()): the least value that is not NaN, NaN when there is none.
ColMin(col) ==
    IF Present(col) = {} THEN NaN
    ELSE Num(CHOOSE m \in Present(col) : \A x \in Present(col) : m <= x)

\* float(Series.max()): the greatest value that is not NaN, NaN when there is none.
ColMax(col) ==
    IF Present(col) = {} THEN NaN
    ELSE Num(CHOOSE m \in Present(col) : \A x \in Present(col) : m >= x)

\* The values st.sidebar.slider(label, lo, hi, value) can return: those from
\* lo to hi.  With no number in the column lo, hi and value are all NaN, and
\* the slider has only that value to give back.
slider(lo, hi) ==
    IF lo.na \/ hi.na THEN {NaN} ELSE {Num(n) : n \in lo.v..hi.v}

\* Lines 63-72: the six sliders, each over its column's observed range.
SliderBounds(d) ==
    LET depth == Column(d, "Depth")
        rop   == Column(d, "ROP(1 ft)")
        wob   == Column(d, "WOB (k-lbs)")
    IN  [depth_min : slider(ColMin(depth), ColMax(depth)),
         depth_max : slider(ColMin(depth), ColMax(depth)),
         min_rop   : slider(ColMin(rop), ColMax(rop)),
         max_rop   : slider(ColMin(rop), ColMax(rop)),
         min_wob   : slider(ColMin(wob), ColMax(wob)),
         max_wob   : slider(ColMin(wob), ColMax(wob))]

\* The sliders' initial values: each min at its column's minimum, each max at
\* its column's maximum.
DefaultBounds(d) ==
    LET depth == Column(d, "Depth")
        rop   == Column(d, "ROP(1 ft)")
        wob   == Column(d, "WOB (k-lbs)")
    IN  [depth_min |-> ColMin(depth), depth_max |-> ColMax(depth),
         min_rop   |-> ColMin(rop),   max_rop   |-> ColMax(rop),
         min_wob   |-> ColMin(wob),   max_wob   |-> ColMax(wob)]

NoBounds ==
    [depth_min |-> NaN, depth_max |-> NaN, min_rop |-> NaN,
     max_rop |-> NaN, min_wob |-> NaN, max_wob |-> NaN]

MaskAny(d, b) ==
    LET depth == Column(d, "Depth")
        rop   == Column(d, "ROP(1 ft)")
        wob   == Column(d, "WOB (k-lbs)")
    IN  [i \in 1..Len(d.data) |->
            \/ Ge(depth[i], b.depth_min) /\ Le(depth[i], b.depth_max)
            \/ Ge(rop[i], b.min_rop) /\ Le(rop[i], b.max_rop)
            \/ Ge(wob[i], b.min_wob) /\ Le(wob[i], b.max_wob)]

MaskStrict(d, b) ==
    LET depth == Column(d, "Depth")
        rop   == Column(d, "ROP(1 ft)")
        wob   == Column(d, "WOB (k-lbs)")
    IN  [i \in 1..Len(d.data) |->
            /\ depth[i].v > b.depth_min.v /\ Le(depth[i], b.depth_max)
            /\ Ge(rop[i], b.min_rop) /\ Le(rop[i], b.max_rop)
            /\ Ge(wob[i], b.min_wob) /\ Le(wob[i], b.max_wob)
            /\ ~depth[i].na /\ ~b.depth_min.na]

MaskMaxAsMin(d, b) ==
    LET depth == Column(d, "Depth")
        rop   == Column(d, "ROP(1 ft)")
        wob   == Column(d, "WOB (k-lbs)")
    IN  [i \in 1..Len(d.data) |->
            /\ Ge(depth[i], b.depth_min) /\ Ge(depth[i], b.depth_max)
            /\ Ge(rop[i], b.min_rop) /\ Le(rop[i], b.max_rop)
            /\ Ge(wob[i], b.min_wob) /\ Le(wob[i], b.max_wob)]

\* Lines 75-77: the boolean Series, one entry per row of d.
Mask(d, b) ==
    LET depth == Column(d, "Depth")
        rop   == Column(d, "ROP(1 ft)")
        wob   == Column(d, "WOB (k-lbs)")
    IN  [i \in 1..Len(d.data) |->
            /\ Ge(depth[i], b.depth_min) /\ Le(depth[i], b.depth_max)
            /\ Ge(rop[i], b.min_rop) /\ Le(rop[i], b.max_rop)
            /\ Ge(wob[i], b.min_wob) /\ Le(wob[i], b.max_wob)]

\* d[mask]: a new frame of the rows whose mask entry is True, in d's order,
\* each with the label it has in d.
BoolIndex(d, mask) ==
    LET keep == SelectSeq([i \in 1..Len(d.data) |-> i], LAMBDA i : mask[i])
    IN  [columns |-> d.columns,
         index   |-> [j \in 1..Len(keep) |-> d.index[keep[j]]],
         data    |-> [j \in 1..Len(keep) |-> d.data[keep[j]]]]

SetColumnAppend(d, name, vals) ==
    [columns |-> Append(d.columns, name),
     index   |-> d.index,
     data    |-> [i \in 1..Len(d.data) |-> Append(d.data[i], vals[i])]]

\* d[name] = vals: the column is replaced when d has it, added last otherwise.
SetColumn(d, name, vals) ==
    IF Has(d.columns, name)
    THEN [columns |-> d.columns,
          index   |-> d.index,
          data    |-> [i \in 1..Len(d.data) |->
                          [d.data[i] EXCEPT ![Pos(d.columns, name)] = vals[i]]]]
    ELSE [columns |-> Append(d.columns, name),
          index   |-> d.index,
          data    |-> [i \in 1..Len(d.data) |-> Append(d.data[i], vals[i])]]

TempGainSwapped(d) ==
    LET out == Column(d, "Temp Out( degF)")
        in  == Column(d, "Temp In(degF)")
    IN  [i \in 1..Len(d.data) |-> Sub(in[i], out[i])]

\* Line 79, right-hand side: Temp Out - Temp In, row by row.
TempGain(d) ==
    LET out == Column(d, "Temp Out( degF)")
        in  == Column(d, "Temp In(degF)")
    IN  [i \in 1..Len(d.data) |-> Sub(out[i], in[i])]

apply_filters_narrowing(self_df, self_df_filtered, b) ==
    LET d == BoolIndex(self_df_filtered, Mask(self_df_filtered, b))
    IN  SetColumn(d, GainCol, TempGain(d))

\* Lines 74-80: the value apply_filters stores in self.df_filtered: the rows
\* of self.df under the mask, with the gain column set.  The former
\* self.df_filtered is not read.
apply_filters(self_df, self_df_filtered, b) ==
    LET d == BoolIndex(self_df, Mask(self_df, b))
    IN  SetColumn(d, GainCol, TempGain(d))

self_df_gain_in_place(self_df, b) == SetColumn(self_df, GainCol, TempGain(self_df))

\* Lines 74-80: self.df after apply_filters.  Indexing with a boolean mask
\* builds a new frame, and line 79 sets the column on that frame.
self_df_after_filters(self_df, b) == self_df

(***************************************************************************)
(* render: the table of line 119                                           *)
(***************************************************************************)
\* d[show_cols].dropna().reset_index(drop=True)
shown_table(d) ==
    LET sel  == [i \in 1..Len(d.data) |->
                    [k \in 1..Len(show_cols) |-> d.data[i][Pos(d.columns, show_cols[k])]]]
        full == SelectSeq(sel, LAMBDA r : \A k \in 1..Len(r) : ~r[k].na)
    IN  [columns |-> show_cols, index |-> RangeIndex(Len(full)), data |-> full]

(***************************************************************************)
(* The state machine                                                       *)
(***************************************************************************)
Init ==
    /\ file \in Files
    /\ pc = "start"
    /\ error = "none"
    /\ df = EmptyFrame
    /\ df_filtered = EmptyFrame
    /\ bounds = NoBounds
    /\ table = EmptyFrame

\* GeothermalDashboard(csv_path): lines 41-44.
Construct ==
    /\ pc = "start"
    /\ \/ /\ LoadError(file) = "none"
          /\ df' = load_and_clean_data(file)
          /\ df_filtered' = df'
          /\ pc' = "constructed"
          /\ UNCHANGED error
       \/ /\ LoadError(file) # "none"
          /\ error' = LoadError(file)
          /\ pc' = "failed"
          /\ UNCHANGED <<df, df_filtered>>
    /\ UNCHANGED <<file, bounds, table>>

\* app.render(): lines 91-119, one filter-and-render cycle.
Render ==
    /\ pc \in {"constructed", "rendered"}
    /\ \E b \in SliderBounds(df) :
          /\ bounds' = b
          /\ df_filtered' = apply_filters(df, df_filtered, b)
          /\ df' = self_df_after_filters(df, b)
    /\ table' = shown_table(df_filtered')
    /\ pc' = "rendered"
    /\ UNCHANGED <<file, error>>

Next == Construct \/ Render

Spec == Init /\ [][Next]_vars

(***************************************************************************)
(* Properties                                                              *)
(***************************************************************************)
Loaded == pc \in {"constructed", "rendered"}

\* The three columns the mask reads.
FilterCols == {"Depth", "ROP(1 ft)", "WOB (k-lbs)"}

Cell(d, i, name) == d.data[i][Pos(d.columns, name)]

Labels(d) == Range(d.index)

\* lo <= x <= hi as numbers: false when any of the three is missing.
Within(x, lo, hi) ==
    (~x.na) /\ (~lo.na) /\ (~hi.na) /\ lo.v <= x.v /\ x.v <= hi.v

\* Row i of self.df lies within the six bounds b.
RowInBounds(i, b) ==
    /\ Within(Cell(df, i, "Depth"), b.depth_min, b.depth_max)
    /\ Within(Cell(df, i, "ROP(1 ft)"), b.min_rop, b.max_rop)
    /\ Within(Cell(df, i, "WOB (k-lbs)"), b.min_wob, b.max_wob)

\* C1: after a cycle, self.df_filtered holds a row of self.df if and only if
\* its Depth, ROP and WOB all lie within their bounds, both ends included;
\* the rows kept are in self.df's order and carry self.df's cells.
C1_RetainedIffInBounds ==
    pc = "rendered" =>
        /\ Labels(df_filtered) =
              {df.index[i] : i \in {k \in 1..Len(df.data) : RowInBounds(k, bounds)}}
        /\ \A j \in 1..(Len(df_filtered.index) - 1) :
              df_filtered.index[j] < df_filtered.index[j + 1]
        /\ \A j \in 1..Len(df_filtered.data) :
              \E i \in 1..Len(df.data) :
                 /\ df.index[i] = df_filtered.index[j]
                 /\ \A c \in 1..Len(df.columns) :
                       df_filtered.data[j][c] = df.data[i][c]

\* A row whose Depth equals the maximum bound is kept while another row is
\* filtered out.
C1_Witness ==
    /\ pc = "rendered"
    /\ Len(df_filtered.data) < Len(df.data)
    /\ \E j \in 1..Len(df_filtered.data) :
          Cell(df_filtered, j, "Depth") = bounds.depth_max

Unparsable(text) == text \notin DOMAIN NumericText

\* C2: when the load succeeds on a file whose third line names the columns,
\* every line after it is a row of self.df; a Depth, ROP or WOB cell that is
\* no number is NaN there, and after a cycle that row is not in
\* self.df_filtered, whatever the bounds.
C2_UnparsableKeptThenFiltered ==
    (Len(file) >= 3 /\ file[3] = NamesLine /\ pc # "start") =>
        /\ pc # "failed"
        /\ Len(df.data) = Len(file) - 3
        /\ \A k \in 4..Len(file) : \A c \in FilterCols :
              Unparsable(file[k][Pos(NamesLine, c)]) =>
                 /\ Cell(df, k - 3, c) = NaN
                 /\ pc = "rendered" => df.index[k - 3] \notin Labels(df_filtered)

\* A row with an unparsable Depth sits in self.df while another row passes
\* the filter.
C2_Witness ==
    /\ pc = "rendered"
    /\ \E k \in 4..Len(file) : file[k][Pos(NamesLine, "Depth")] = "x"
    /\ Len(df_filtered.data) >= 1

\* C3: in self.df_filtered every row's gain is its own Temp Out minus Temp In,
\* NaN when either is NaN; and a row of self.df within the bounds is kept
\* also when its Temp Out or Temp In is NaN.
C3_GainIsOutMinusIn ==
    pc = "rendered" =>
        /\ \A j \in 1..Len(df_filtered.data) :
              LET out  == Cell(df_filtered, j, "Temp Out( degF)")
                  in   == Cell(df_filtered, j, "Temp In(degF)")
                  gain == Cell(df_filtered, j, GainCol)
              IN  /\ (~out.na /\ ~in.na) => (~gain.na /\ gain.v = out.v - in.v)
                  /\ (out.na \/ in.na) => gain.na
        /\ \A i \in 1..Len(df.data) :
              (RowInBounds(i, bounds)
                 /\ (Cell(df, i, "Temp Out( degF)").na \/ Cell(df, i, "Temp In(degF)").na))
              => df.index[i] \in Labels(df_filtered)

\* One kept row has a gain of 2 and another a missing gain.
C3_Witness ==
    /\ pc = "rendered"
    /\ \E j \in 1..Len(df_filtered.data) : Cell(df_filtered, j, GainCol) = Num(2)
    /\ \E j \in 1..Len(df_filtered.data) : Cell(df_filtered, j, GainCol) = NaN

\* Row i of self.df has a number in each of Depth, ROP and WOB.
RowComplete(i) == \A c \in FilterCols : ~Cell(df, i, c).na

\* Every slider has a range: each of the three columns holds a number.
AllNumbers(b) ==
    /\ ~b.depth_min.na /\ ~b.depth_max.na
    /\ ~b.min_rop.na /\ ~b.max_rop.na
    /\ ~b.min_wob.na /\ ~b.max_wob.na

\* C4 as stated: with the six bounds at their defaults (each column holding a
\* number, so that each default is one) self.df_filtered holds every row of
\* self.df.
C4_DefaultsPassThrough ==
    (pc = "rendered" /\ bounds = DefaultBounds(df) /\ AllNumbers(bounds)) =>
        df_filtered.index = df.index

\* C4 as amended: with the six bounds at their defaults self.df_filtered
\* holds exactly the rows of self.df that have a number in each of Depth,
\* ROP and WOB.
C4_DefaultsKeepCompleteRows ==
    (pc = "rendered" /\ bounds = DefaultBounds(df)) =>
        /\ Labels(df_filtered) =
              {df.index[i] : i \in {k \in 1..Len(df.data) : RowComplete(k)}}
        /\ Len(df_filtered.data) =
              Cardinality({k \in 1..Len(df.data) : RowComplete(k)})

\* With the defaults, one row is kept and a row with a missing cell is not.
C4_Witness ==
    /\ pc = "rendered"
    /\ bounds = DefaultBounds(df)
    /\ Len(df_filtered.data) >= 1
    /\ \E i \in 1..Len(df.data) : ~RowComplete(i)

\* The file as C5 describes it: line 0 metadata, line 1 the column names,
\* the lines after it data, one at least.
ClaimShapedFile ==
    /\ Len(file) >= 3
    /\ file[1] = MetaLine
    /\ file[2] = NamesLine
    /\ \A k \in 3..Len(file) : file[k] \in DataLines

\* C5 as stated: on such a file the load returns the cells of line 1 as the
\* column names and the lines 2..n as the rows, labelled 0, 1, ...
C5_NamesOnSecondLine ==
    (ClaimShapedFile /\ pc # "start") =>
        /\ pc # "failed"
        /\ df.columns = file[2]
        /\ df.index = RangeIndex(Len(file) - 2)
        /\ \A k \in 3..Len(file) : df.data[k - 2] = coerce_row(file[2], file[k])

\* C5 as amended: read_csv takes the file's first line as its header, so the
\* names are read from the file's third line: on a file whose third line
\* names the columns the load returns that line's cells as the column names
\* and the lines after it, in order, as the rows, labelled 0, 1, ...
C5_NamesOnThirdLine ==
    (Len(file) >= 3 /\ file[3] = NamesLine /\ pc # "start") =>
        /\ pc # "failed"
        /\ df.columns = file[3]
        /\ df.index = RangeIndex(Len(file) - 3)
        /\ \A k \in 4..Len(file) : df.data[k - 3] = coerce_row(file[3], file[k])

\* A file of two lines of metadata, the names and two data lines is loaded.
C5_Witness ==
    /\ pc = "constructed"
    /\ Len(file) = 5
    /\ file[1] = MetaLine /\ file[2] = MetaLine /\ file[3] = NamesLine
    /\ file[4] \in DataLines /\ file[5] \in DataLines
    /\ Len(df.data) = 2

\* C6: filtering the filtered table again with the same bounds gives the
\* same rows, in the same order, with the same gains.
C6_Idempotent ==
    pc = "rendered" =>
        apply_filters(df_filtered, df_filtered, bounds) = df_filtered

\* The first filtering kept one row and removed another.
C6_Witness ==
    /\ pc = "rendered"
    /\ Len(df_filtered.data) >= 1
    /\ Len(df_filtered.data) < Len(df.data)

WidenSteps == {1, 2}

Lower(x, s) == IF x.na THEN x ELSE Num(x.v - s)

Raise(x, s) == IF x.na THEN x ELSE Num(x.v + s)

\* The bounds that differ from b in one bound only, a min lowered or a max
\* raised.
Widened(b) ==
    UNION {
        {[b EXCEPT !.depth_min = Lower(b.depth_min, s)],
         [b EXCEPT !.depth_max = Raise(b.depth_max, s)],
         [b EXCEPT !.min_rop = Lower(b.min_rop, s)],
         [b EXCEPT !.max_rop = Raise(b.max_rop, s)],
         [b EXCEPT !.min_wob = Lower(b.min_wob, s)],
         [b EXCEPT !.max_wob = Raise(b.max_wob, s)]} : s \in WidenSteps}

\* C7: the filtered table never has more rows than self.df, and widening one
\* bound keeps every row that was kept.
C7_Monotone ==
    pc = "rendered" =>
        /\ Len(df_filtered.data) <= Len(df.data)
        /\ \A b2 \in Widened(bounds) :
              LET wider == apply_filters(df, df_filtered, b2)
              IN  /\ Labels(df_filtered) \subseteq Labels(wider)
                  /\ Len(df_filtered.data) <= Len(wider.data)

\* Widening one bound brings a row back.
C7_Witness ==
    /\ pc = "rendered"
    /\ \E b2 \in Widened(bounds) :
          Len(apply_filters(df, df_filtered, b2).data) > Len(df_filtered.data)

Inverted(lo, hi) == (~lo.na) /\ (~hi.na) /\ lo.v > hi.v

\* C8: a cycle whose bounds are inverted for Depth, ROP or WOB ends without
\* an error and leaves an empty filtered table.
C8_InvertedGivesEmpty ==
    (/\ pc = "rendered"
     /\ \/ Inverted(bounds.depth_min, bounds.depth_max)
        \/ Inverted(bounds.min_rop, bounds.max_rop)
        \/ Inverted(bounds.min_wob, bounds.max_wob))
    => (error = "none" /\ Len(df_filtered.data) = 0 /\ Len(df_filtered.index) = 0)

\* The ROP bounds are inverted while a row lies within the Depth and WOB
\* bounds.
C8_Witness ==
    /\ pc = "rendered"
    /\ Inverted(bounds.min_rop, bounds.max_rop)
    /\ \E i \in 1..Len(df.data) :
          /\ Within(Cell(df, i, "Depth"), bounds.depth_min, bounds.depth_max)
          /\ Within(Cell(df, i, "WOB (k-lbs)"), bounds.min_wob, bounds.max_wob)
    /\ Len(df_filtered.data) = 0

\* C9: after any cycles self.df is the table load_and_clean_data returned,
\* and it has no gain column.
C9_DfImmutable ==
    Loaded => (df = load_and_clean_data(file) /\ ~Has(df.columns, GainCol))

\* A cycle has put the gain column on a filtered table that has a row.
C9_Witness ==
    /\ pc = "rendered"
    /\ Has(df_filtered.columns, GainCol)
    /\ Len(df_filtered.data) >= 1

\* C10: a cycle with any other bounds followed by a cycle with the present
\* bounds gives back the present filtered table: the result depends on
\* self.df and the latest bounds only.
C10_RecomputedFromScratch ==
    pc = "rendered" =>
        \A b1 \in SliderBounds(df) :
            apply_filters(df, apply_filters(df, df_filtered, b1), bounds) = df_filtered

\* Some other bounds would remove a row that the present table holds.
C10_Witness ==
    /\ pc = "rendered"
    /\ Len(df_filtered.data) >= 1
    /\ \E b1 \in SliderBounds(df) :
          Len(apply_filters(df, df_filtered, b1).data) < Len(df_filtered.data)

====
